---- MODULE Spec2Model ----
(***************************************************************************)
(* Model of the HighLevelControl node of the wall follower                 *)
(* (src/Packages/robot/src/high_level_control.cpp).                        *)
(*                                                                         *)
(* Numbers.  The code computes in float/double.  The model uses fixed      *)
(* point: every distance (range readings, target coordinates, the          *)
(* distance thresholds) is an integer number of centimetres, so 0.5 m is   *)
(* 50, a squared distance is in cm^2 (0.5 m^2 is 5000), and sin(PI/3) is   *)
(* SinNum / SinDen.  Velocities are integers in an arbitrary unit; the     *)
(* configured angular velocities are multiples of 4, so that the code's    *)
(* "/ 4" is exact.                                                         *)
(*                                                                         *)
(* A scan cycle is three steps: Publish (a circle_detect message arrives   *)
(* in the subscriber queue), LaserCallback (the whole handler runs on it), *)
(* SpinOnce (the handler has returned; the message is released).           *)
(*   msg     the message queued / being handled / just handled             *)
(*   pre     the controller's fields as they were when the handler started *)
(*   cmd_vel the Twist messages the handler published in this cycle        *)
(*   picked  whether the handler called rand() in this cycle               *)
(*   calls   the controller functions the handler called in this cycle     *)
(*   params  the parameter names the parameter server holds at start-up    *)
(***************************************************************************)
EXTENDS Integers, Sequences, FiniteSets, TLC

VARIABLES move_specs_, move_status_, circle_hit_mode_, circle_x, circle_y,
          rosOk, pc, msg, pre, cmd_vel, picked, calls, params

vars == <<move_specs_, move_status_, circle_hit_mode_, circle_x, circle_y,
          rosOk, pc, msg, pre, cmd_vel, picked, calls, params>>

-----------------------------------------------------------------------------
(* enum TurnType: the code derives the sign of a turn as turn_type_ - 1.   *)
RIGHT == 0
NONE == 1
LEFT == 2
TurnType == {RIGHT, NONE, LEFT}

(* Literals of the code, in centimetres (cm^2 for ThresholdOffset).        *)
NoCircle == -1000
WallIndexRight == 380
WallIndexLeft == 340
WallNone == 100
ThresholdOffset == 5000
CircleXLow == -50
CircleXHigh == 50
CircleYHigh == 100
FrontIndexRight == 90
FrontIndexLeft == 630
(* diff is kept in units of 1 cm / SinDen: DiffTol is 0.05 m.              *)
SinNum == 866025
SinDen == 1000000
DiffTol == 5000000
AngularDivisor == 4

-----------------------------------------------------------------------------
(* Inputs.  A scan frame has FrameLen readings and is constant on each of  *)
(* six bearing regions; seg[k] is the reading of region k.                 *)
FrameLen == 720
RegionStarts == <<0, 60, 240, 360, 480, 660>>
Regions == 1..Len(RegionStarts)

RegionOf(i) ==
    CHOOSE k \in Regions :
        /\ RegionStarts[k] <= i
        /\ \A j \in Regions : RegionStarts[j] <= i => j <= k

RegionValues ==
    <<{0, 50, 100}, {-5, 0, 5, 100}, {5, 100}, {5, 100}, {-5, 0, 5, 100}, {0, 50, 100}>>

Segs == {s \in [Regions -> {-5, 0, 5, 50, 100}] : \A k \in Regions : s[k] \in RegionValues[k]}

(* std::vector<float> ranges(msg->ranges.begin(), msg->ranges.end())       *)
Frame(seg) == [i \in 1..FrameLen |-> seg[RegionOf(i - 1)]]

(* ranges[i], C++ indices from 0 *)
At(ranges, i) == ranges[i + 1]

Observations ==
    { <<NoCircle, NoCircle>>, <<0, 50>>, <<10, 70>>, <<50, 0>>, <<-50, 0>>, <<0, 100>> }

(* Messages whose frame has all FrameLen readings; size is the number of    *)
(* readings the message carries.                                            *)
Messages ==
    { [ranges |-> s, size |-> FrameLen, circle_x |-> o[1], circle_y |-> o[2]] :
      s \in Segs, o \in Observations }

NoMsg == [ranges |-> <<>>, size |-> 0, circle_x |-> NoCircle, circle_y |-> NoCircle]

(* Undersized frames: only the first n readings exist (seg is fixed on the  *)
(* regions that lie wholly beyond them).                                    *)
ShortSizes == {360}

ShortMessages ==
    { x \in { [m EXCEPT !.size = n] : m \in Messages, n \in ShortSizes } :
      \A k \in Regions : x.ranges[k] = 100 \/ RegionStarts[k] < x.size }

(* What an unchecked read past the end of the vector may return *)
Garbage == {0, 100}

(* The values reads past the end of m's frame may return in one cycle (a    *)
(* full frame has no such read: the value is then never used).              *)
PastEnd(m) == IF m.size >= FrameLen THEN {0} ELSE Garbage

(* The vector ranges as the handler reads it.  operator[] is unchecked: an  *)
(* index at or beyond size() is undefined behaviour and yields some value   *)
(* g.                                                                       *)
Ranges(m, g) ==
    IF m.size >= FrameLen
    THEN Frame(m.ranges)
    ELSE [i \in 1..FrameLen |-> IF i <= m.size THEN m.ranges[RegionOf(i - 1)] ELSE g]

(* Configuration values of the parameter server.                           *)
Configs ==
    { [high_security_distance_ |-> 5, low_security_distance_ |-> 0,
       wall_follow_distance_ |-> 100,
       linear_velocity_ |-> 20, angular_velocity_ |-> 40,
       right_range_ |-> [low_lim_ |-> 55, high_lim_ |-> 64],
       left_range_ |-> [low_lim_ |-> 655, high_lim_ |-> 664],
       center_range_ |-> [low_lim_ |-> 355, high_lim_ |-> 364]] }

-----------------------------------------------------------------------------
(* util_functions *)
RECURSIVE GetMin(_, _, _)
GetMin(ranges, low, high) ==
    IF low >= high THEN At(ranges, low)
    ELSE LET rest == GetMin(ranges, low + 1, high)
         IN  IF At(ranges, low) < rest THEN At(ranges, low) ELSE rest

Min(a, b, c) ==
    IF a <= b /\ a <= c THEN a ELSE IF b <= c THEN b ELSE c

Twist(linear_velocity, angular_velocity) ==
    [linear_x |-> linear_velocity, angular_z |-> angular_velocity]

(* HighLevelControl::Move: one message on cmd_vel *)
Move(linear_velocity, angular_velocity) == <<Twist(linear_velocity, angular_velocity)>>

-----------------------------------------------------------------------------
(* HighLevelControl::CanContinue: the new can_continue_ *)
CanContinue_SecondaryBelow(specs, right_min_distance, left_min_distance, center_min_distance) ==
    LET priority_min ==
            IF specs.turn_type_ = RIGHT
            THEN (IF center_min_distance < right_min_distance
                  THEN center_min_distance ELSE right_min_distance)
            ELSE IF specs.turn_type_ = LEFT
            THEN (IF center_min_distance < left_min_distance
                  THEN center_min_distance ELSE left_min_distance)
            ELSE Min(right_min_distance, left_min_distance, center_min_distance)
        secondary_min ==
            IF specs.turn_type_ = RIGHT THEN left_min_distance
            ELSE IF specs.turn_type_ = LEFT THEN right_min_distance
            ELSE Min(right_min_distance, left_min_distance, center_min_distance)
    IN  IF /\ priority_min > specs.high_security_distance_
           /\ secondary_min < specs.wall_follow_distance_
        THEN TRUE
        ELSE FALSE

CanContinue_NonStrict(specs, right_min_distance, left_min_distance, center_min_distance) ==
    LET priority_min ==
            IF specs.turn_type_ = RIGHT
            THEN (IF center_min_distance < right_min_distance
                  THEN center_min_distance ELSE right_min_distance)
            ELSE IF specs.turn_type_ = LEFT
            THEN (IF center_min_distance < left_min_distance
                  THEN center_min_distance ELSE left_min_distance)
            ELSE Min(right_min_distance, left_min_distance, center_min_distance)
        secondary_min ==
            IF specs.turn_type_ = RIGHT THEN left_min_distance
            ELSE IF specs.turn_type_ = LEFT THEN right_min_distance
            ELSE Min(right_min_distance, left_min_distance, center_min_distance)
    IN  IF /\ priority_min >= specs.high_security_distance_
           /\ secondary_min >= specs.low_security_distance_
        THEN TRUE
        ELSE FALSE

CanContinue(specs, right_min_distance, left_min_distance, center_min_distance) ==
    LET priority_min ==
            IF specs.turn_type_ = RIGHT
            THEN (IF center_min_distance < right_min_distance
                  THEN center_min_distance ELSE right_min_distance)
            ELSE IF specs.turn_type_ = LEFT
            THEN (IF center_min_distance < left_min_distance
                  THEN center_min_distance ELSE left_min_distance)
            ELSE Min(right_min_distance, left_min_distance, center_min_distance)
        secondary_min ==
            IF specs.turn_type_ = RIGHT THEN left_min_distance
            ELSE IF specs.turn_type_ = LEFT THEN right_min_distance
            ELSE Min(right_min_distance, left_min_distance, center_min_distance)
    IN  IF /\ priority_min > specs.high_security_distance_
           /\ secondary_min > specs.low_security_distance_
        THEN TRUE
        ELSE FALSE

(* HighLevelControl::IsCloseToWall: the possible (is_close_to_wall_, ros    *)
(* still running) after the call.  With turn_type_ NONE the code calls      *)
(* ros::shutdown() and then compares the uninitialised local min: either    *)
(* result can come out.                                                     *)
IsCloseToWall_NonStrict(specs, status, right_min_distance, left_min_distance, center_min_distance) ==
    IF status.is_following_wall_
    THEN IF specs.turn_type_ = RIGHT
         THEN {[close |-> right_min_distance <= specs.wall_follow_distance_, ok |-> TRUE]}
         ELSE IF specs.turn_type_ = LEFT
         THEN {[close |-> left_min_distance <= specs.wall_follow_distance_, ok |-> TRUE]}
         ELSE {[close |-> b, ok |-> FALSE] : b \in BOOLEAN}
    ELSE {[close |-> status.is_close_to_wall_, ok |-> TRUE]}

IsCloseToWall(specs, status, right_min_distance, left_min_distance, center_min_distance) ==
    IF status.is_following_wall_
    THEN IF specs.turn_type_ = RIGHT
         THEN {[close |-> right_min_distance < specs.wall_follow_distance_, ok |-> TRUE]}
         ELSE IF specs.turn_type_ = LEFT
         THEN {[close |-> left_min_distance < specs.wall_follow_distance_, ok |-> TRUE]}
         ELSE {[close |-> b, ok |-> FALSE] : b \in BOOLEAN}
    ELSE {[close |-> status.is_close_to_wall_, ok |-> TRUE]}

(* HighLevelControl::NormalMovement: the possible (move_status_, ros still  *)
(* running) after the call.                                                 *)
NormalMovement(ranges, specs, status) ==
    LET right_min_distance ==
            GetMin(ranges, specs.right_range_.low_lim_, specs.right_range_.high_lim_)
        left_min_distance ==
            GetMin(ranges, specs.left_range_.low_lim_, specs.left_range_.high_lim_)
        center_min_distance ==
            GetMin(ranges, specs.center_range_.low_lim_, specs.center_range_.high_lim_)
        can == CanContinue(specs, right_min_distance, left_min_distance,
                           center_min_distance)
    IN  { [status |-> [can_continue_ |-> can,
                       is_close_to_wall_ |-> c.close,
                       is_following_wall_ |-> status.is_following_wall_],
           ok |-> c.ok] :
          c \in IsCloseToWall(specs, status, right_min_distance, left_min_distance,
                              center_min_distance) }

(* rand() % 2 == 0 ? RIGHT : LEFT, seeded from the clock: either side *)
PickTurnType_WithNone == {RIGHT, NONE, LEFT}

PickTurnType == {RIGHT, LEFT}

(* The command of WallFollowMove while following a wall *)
FollowWallCommand_SignSwapped(specs, status) ==
    IF status.can_continue_ /\ status.is_close_to_wall_
    THEN Move(specs.linear_velocity_, 0)
    ELSE IF ~status.can_continue_
    THEN Move(0, -1 * (specs.turn_type_ - 1) * specs.angular_velocity_)
    ELSE IF ~status.is_close_to_wall_
    THEN Move(0, (specs.turn_type_ - 1) * specs.angular_velocity_)
    ELSE <<>>

FollowWallCommand_ForwardWhenClose(specs, status) ==
    IF status.is_close_to_wall_
    THEN Move(specs.linear_velocity_, 0)
    ELSE IF ~status.can_continue_
    THEN Move(0, (specs.turn_type_ - 1) * specs.angular_velocity_)
    ELSE Move(0, -1 * (specs.turn_type_ - 1) * specs.angular_velocity_)

FollowWallCommand(specs, status) ==
    IF status.can_continue_ /\ status.is_close_to_wall_
    THEN Move(specs.linear_velocity_, 0)
    ELSE IF ~status.can_continue_
    THEN Move(0, (specs.turn_type_ - 1) * specs.angular_velocity_)
    ELSE IF ~status.is_close_to_wall_
    THEN Move(0, -1 * (specs.turn_type_ - 1) * specs.angular_velocity_)
    ELSE <<>>

(* HighLevelControl::WallFollowMove: the possible outcomes: the new         *)
(* turn_type_ and is_following_wall_, the messages published, and whether   *)
(* rand() was called.                                                       *)
WallFollowMove_StopOnPick(specs, status) ==
    IF ~status.can_continue_ /\ ~status.is_following_wall_
    THEN { [turn_type_ |-> t, is_following_wall_ |-> TRUE, pub |-> Move(0, 0),
            picked |-> TRUE] : t \in PickTurnType }
    ELSE IF status.can_continue_ /\ ~status.is_following_wall_
    THEN { [turn_type_ |-> specs.turn_type_, is_following_wall_ |-> status.is_following_wall_,
            pub |-> Move(specs.linear_velocity_, 0), picked |-> FALSE] }
    ELSE { [turn_type_ |-> specs.turn_type_, is_following_wall_ |-> status.is_following_wall_,
            pub |-> FollowWallCommand(specs, status), picked |-> FALSE] }

WallFollowMove_Restart(specs, status) ==
    IF ~status.can_continue_ /\ ~status.is_following_wall_
    THEN { [turn_type_ |-> t, is_following_wall_ |-> TRUE, pub |-> <<>>,
            picked |-> TRUE] : t \in PickTurnType }
    ELSE IF status.can_continue_ /\ ~status.is_following_wall_
    THEN { [turn_type_ |-> specs.turn_type_, is_following_wall_ |-> status.is_following_wall_,
            pub |-> Move(specs.linear_velocity_, 0), picked |-> FALSE] }
    ELSE { [turn_type_ |-> specs.turn_type_,
            is_following_wall_ |-> ~(status.can_continue_ /\ ~status.is_close_to_wall_),
            pub |-> FollowWallCommand(specs, status), picked |-> FALSE] }

WallFollowMove_Repick(specs, status) ==
    IF ~status.can_continue_
    THEN { [turn_type_ |-> t, is_following_wall_ |-> TRUE, pub |-> <<>>,
            picked |-> TRUE] : t \in PickTurnType }
    ELSE IF status.can_continue_ /\ ~status.is_following_wall_
    THEN { [turn_type_ |-> specs.turn_type_, is_following_wall_ |-> status.is_following_wall_,
            pub |-> Move(specs.linear_velocity_, 0), picked |-> FALSE] }
    ELSE { [turn_type_ |-> specs.turn_type_, is_following_wall_ |-> status.is_following_wall_,
            pub |-> FollowWallCommand(specs, status), picked |-> FALSE] }

WallFollowMove(specs, status) ==
    IF ~status.can_continue_ /\ ~status.is_following_wall_
    THEN { [turn_type_ |-> t, is_following_wall_ |-> TRUE, pub |-> <<>>,
            picked |-> TRUE] : t \in PickTurnType }
    ELSE IF status.can_continue_ /\ ~status.is_following_wall_
    THEN { [turn_type_ |-> specs.turn_type_, is_following_wall_ |-> status.is_following_wall_,
            pub |-> Move(specs.linear_velocity_, 0), picked |-> FALSE] }
    ELSE { [turn_type_ |-> specs.turn_type_, is_following_wall_ |-> status.is_following_wall_,
            pub |-> FollowWallCommand(specs, status), picked |-> FALSE] }

(* The three-way decision of HitCircle on diff = front - sin(PI/3) * back.  *)
HitCircleDecision_Strict(specs, front_value, back_value) ==
    LET diff == front_value * SinDen - SinNum * back_value
    IN  IF diff < DiffTol /\ diff > -DiffTol
        THEN Move(specs.linear_velocity_, 0)
        ELSE IF diff > DiffTol
        THEN Move(0, (-1 * (specs.turn_type_ - 1) * specs.angular_velocity_) \div AngularDivisor)
        ELSE Move(0, ((specs.turn_type_ - 1) * specs.angular_velocity_) \div AngularDivisor)

HitCircleDecision(specs, front_value, back_value) ==
    LET diff == front_value * SinDen - SinNum * back_value
    IN  IF diff <= DiffTol /\ diff >= -DiffTol
        THEN Move(specs.linear_velocity_, 0)
        ELSE IF diff > DiffTol
        THEN Move(0, (-1 * (specs.turn_type_ - 1) * specs.angular_velocity_) \div AngularDivisor)
        ELSE Move(0, ((specs.turn_type_ - 1) * specs.angular_velocity_) \div AngularDivisor)

(* HighLevelControl::HitCircle: the messages published *)
HitCircle(ranges, specs) ==
    IF specs.turn_type_ = RIGHT
    THEN HitCircleDecision(specs, At(ranges, FrontIndexRight),
                           At(ranges, specs.right_range_.low_lim_))
    ELSE IF specs.turn_type_ = LEFT
    THEN HitCircleDecision(specs, At(ranges, FrontIndexLeft),
                           At(ranges, specs.left_range_.high_lim_))
    ELSE <<>>

(* The wall reference distance of LaserCallback *)
Wall_Swapped(specs, ranges) ==
    IF specs.turn_type_ = RIGHT THEN At(ranges, WallIndexLeft)
    ELSE IF specs.turn_type_ = LEFT THEN At(ranges, WallIndexRight)
    ELSE WallNone

Wall(specs, ranges) ==
    IF specs.turn_type_ = RIGHT THEN At(ranges, WallIndexRight)
    ELSE IF specs.turn_type_ = LEFT THEN At(ranges, WallIndexLeft)
    ELSE WallNone

(* circle_hit_mode_ after LaserCallback has handled a message carrying the  *)
(* target (cx, cy): the flag is only touched, and only raised, when it is   *)
(* false on entry.                                                          *)
ModeArbiter_Reassign(hit, specs, ranges, cx, cy) ==
    LET wall == Wall(specs, ranges)
        threshold == cx * cx + cy * cy + ThresholdOffset
    IN  wall * wall > threshold /\ cx > CircleXLow /\ cx < CircleXHigh /\ cy < CircleYHigh

ModeArbiter_NoLowerX(hit, specs, ranges, cx, cy) ==
    IF ~hit
    THEN LET wall == Wall(specs, ranges)
             threshold == cx * cx + cy * cy + ThresholdOffset
         IN  IF wall * wall > threshold /\ cx < CircleXHigh /\ cy < CircleYHigh
             THEN TRUE
             ELSE hit
    ELSE hit

ModeArbiter(hit, specs, ranges, cx, cy) ==
    IF ~hit
    THEN LET wall == Wall(specs, ranges)
             threshold == cx * cx + cy * cy + ThresholdOffset
         IN  IF wall * wall > threshold /\ cx > CircleXLow /\ cx < CircleXHigh
                /\ cy < CircleYHigh
             THEN TRUE
             ELSE hit
    ELSE hit

-----------------------------------------------------------------------------
Snapshot ==
    [turn_type_ |-> move_specs_.turn_type_,
     can_continue_ |-> move_status_.can_continue_,
     is_close_to_wall_ |-> move_status_.is_close_to_wall_,
     is_following_wall_ |-> move_status_.is_following_wall_,
     circle_hit_mode_ |-> circle_hit_mode_,
     circle_x |-> circle_x, circle_y |-> circle_y]

(* The initial value of circle_hit_mode_ (the constructor does not set it) *)
InitialHitMode == FALSE

(* HighLevelControl::InitialiseMoveStatus *)
InitialiseMoveStatus ==
    [can_continue_ |-> TRUE, is_close_to_wall_ |-> FALSE, is_following_wall_ |-> FALSE]

(* HighLevelControl::InitialiseMoveSpecs: the loaded parameters, turn NONE  *)
InitialiseMoveSpecs(config) ==
    [high_security_distance_ |-> config.high_security_distance_,
     low_security_distance_ |-> config.low_security_distance_,
     wall_follow_distance_ |-> config.wall_follow_distance_,
     linear_velocity_ |-> config.linear_velocity_,
     angular_velocity_ |-> config.angular_velocity_,
     right_range_ |-> config.right_range_,
     left_range_ |-> config.left_range_,
     center_range_ |-> config.center_range_,
     turn_type_ |-> NONE]

(* The eleven parameters InitialiseMoveSpecs reads *)
ParamNames ==
    {"high_security_distance", "low_security_distance", "wall_follow_distance",
     "linear_velocity", "angular_velocity",
     "right_range_low_lim", "right_range_high_lim",
     "left_range_low_lim", "left_range_high_lim",
     "center_range_low_lim", "center_range_high_lim"}

(* What the parameter server may hold: everything, or all but one *)
ParamSets == {ParamNames} \cup {ParamNames \ {n} : n \in ParamNames}

(* HighLevelControl::InitialiseMoveSpecs: the flag loaded, false as soon as *)
(* one getParam fails; ros::shutdown() is called when it is false.          *)
ParamsLoaded_SkipsLast(present) ==
    \A n \in ParamNames \ {"center_range_high_lim"} : n \in present

ParamsLoaded(present) == \A n \in ParamNames : n \in present

(* The node's spin loop hands messages to the handler while ros::ok() *)
Spinning == rosOk

(* The controller functions LaserCallback calls, by circle_hit_mode_ on     *)
(* entry.                                                                   *)
Route_IgnoresMode(hit) == <<"NormalMovement", "WallFollowMove">>

Route(hit) ==
    IF ~hit THEN <<"NormalMovement", "WallFollowMove">> ELSE <<"HitCircle">>

(* HighLevelControl::HighLevelControl.  A parameter that is missing leaves  *)
(* its field unset; the field then holds some value, here the configured    *)
(* one.                                                                     *)
Init ==
    /\ \E config \in Configs : move_specs_ = InitialiseMoveSpecs(config)
    /\ params \in ParamSets
    /\ calls = <<>>
    /\ move_status_ = InitialiseMoveStatus
    /\ circle_hit_mode_ = InitialHitMode
    /\ circle_x = NoCircle
    /\ circle_y = NoCircle
    /\ rosOk = ParamsLoaded(params)
    /\ pc = "idle"
    /\ msg = NoMsg
    /\ pre = Snapshot
    /\ cmd_vel = <<>>
    /\ picked = FALSE

(* A circle_detect message is delivered to the subscriber. *)
Publish ==
    /\ pc = "idle"
    /\ Spinning
    /\ \E m \in Messages : msg' = m
    /\ pc' = "queued"
    /\ UNCHANGED <<move_specs_, move_status_, circle_hit_mode_, circle_x, circle_y,
                   rosOk, pre, cmd_vel, picked, calls, params>>

(* HighLevelControl::LaserCallback, circle_hit_mode_ false on entry:       *)
(* record the target, decide the mode, then NormalMovement and             *)
(* WallFollowMove.                                                         *)
LaserCallbackNormal ==
    /\ pc = "queued"
    /\ Route(circle_hit_mode_) = <<"NormalMovement", "WallFollowMove">>
    /\ calls' = Route(circle_hit_mode_)
    /\ \E g \in PastEnd(msg) :
       LET ranges == Ranges(msg, g)
       IN  /\ circle_x' = msg.circle_x
           /\ circle_y' = msg.circle_y
           /\ circle_hit_mode_' =
                  ModeArbiter(circle_hit_mode_, move_specs_, ranges, msg.circle_x, msg.circle_y)
           /\ \E n \in NormalMovement(ranges, move_specs_, move_status_) :
                \E w \in WallFollowMove(move_specs_, n.status) :
                   /\ move_status_' = [n.status EXCEPT !.is_following_wall_ = w.is_following_wall_]
                   /\ move_specs_' = [move_specs_ EXCEPT !.turn_type_ = w.turn_type_]
                   /\ rosOk' = n.ok
                   /\ cmd_vel' = IF n.ok THEN w.pub ELSE <<>>
                   /\ picked' = w.picked
    /\ pre' = Snapshot
    /\ pc' = "done"
    /\ UNCHANGED <<msg, params>>

(* HighLevelControl::LaserCallback, circle_hit_mode_ true on entry:        *)
(* HitCircle only.                                                         *)
LaserCallbackHit_RecordsTarget ==
    /\ pc = "queued"
    /\ Route(circle_hit_mode_) = <<"HitCircle">>
    /\ calls' = Route(circle_hit_mode_)
    /\ circle_x' = msg.circle_x
    /\ circle_y' = msg.circle_y
    /\ \E g \in PastEnd(msg) :
       LET ranges == Ranges(msg, g)
       IN  /\ circle_hit_mode_' =
                  ModeArbiter(circle_hit_mode_, move_specs_, ranges, msg.circle_x, msg.circle_y)
           /\ cmd_vel' = HitCircle(ranges, move_specs_)
    /\ picked' = FALSE
    /\ pre' = Snapshot
    /\ pc' = "done"
    /\ UNCHANGED <<move_specs_, move_status_, rosOk, msg, params>>

LaserCallbackHit ==
    /\ pc = "queued"
    /\ Route(circle_hit_mode_) = <<"HitCircle">>
    /\ calls' = Route(circle_hit_mode_)
    /\ \E g \in PastEnd(msg) :
       LET ranges == Ranges(msg, g)
       IN  /\ circle_hit_mode_' =
                  ModeArbiter(circle_hit_mode_, move_specs_, ranges, msg.circle_x, msg.circle_y)
           /\ cmd_vel' = HitCircle(ranges, move_specs_)
    /\ picked' = FALSE
    /\ pre' = Snapshot
    /\ pc' = "done"
    /\ UNCHANGED <<move_specs_, move_status_, circle_x, circle_y, rosOk, msg, params>>

LaserCallback == LaserCallbackNormal \/ LaserCallbackHit

(* The handler has returned: the message is released. *)
SpinOnce ==
    /\ pc = "done"
    /\ pc' = "idle"
    /\ msg' = NoMsg
    /\ pre' = Snapshot
    /\ cmd_vel' = <<>>
    /\ picked' = FALSE
    /\ calls' = <<>>
    /\ UNCHANGED <<move_specs_, move_status_, circle_hit_mode_, circle_x, circle_y, rosOk,
                   params>>

Next == Publish \/ LaserCallback \/ SpinOnce

Spec == Init /\ [][Next]_vars

-----------------------------------------------------------------------------
(* Undersized frames.  The message type does not fix the length of ranges,  *)
(* and the handler does not test it.                                        *)

(* The indices of ranges a cycle reads: the arbiter's wall reading and the  *)
(* three sector windows in wall-follow mode, the two HitCircle readings in  *)
(* target-approach mode.                                                    *)
IndicesRead(hit, specs) ==
    IF ~hit
    THEN (IF specs.turn_type_ = RIGHT THEN {WallIndexRight}
          ELSE IF specs.turn_type_ = LEFT THEN {WallIndexLeft} ELSE {})
         \cup (specs.right_range_.low_lim_ .. specs.right_range_.high_lim_)
         \cup (specs.left_range_.low_lim_ .. specs.left_range_.high_lim_)
         \cup (specs.center_range_.low_lim_ .. specs.center_range_.high_lim_)
    ELSE IF specs.turn_type_ = RIGHT THEN {specs.right_range_.low_lim_, FrontIndexRight}
    ELSE IF specs.turn_type_ = LEFT THEN {specs.left_range_.high_lim_, FrontIndexLeft}
    ELSE {}

(* A circle_detect message with an undersized frame is delivered. *)
PublishShort ==
    /\ pc = "idle"
    /\ Spinning
    /\ \E m \in ShortMessages : msg' = m
    /\ pc' = "queued"
    /\ UNCHANGED <<move_specs_, move_status_, circle_hit_mode_, circle_x, circle_y,
                   rosOk, pre, cmd_vel, picked, calls, params>>

(* HighLevelControl::LaserCallback reading past the end of ranges: the      *)
(* other outcome of the undefined read, the process is killed.              *)
LaserCallbackCrash ==
    /\ pc = "queued"
    /\ \E i \in IndicesRead(circle_hit_mode_, move_specs_) : i >= msg.size
    /\ pc' = "crashed"
    /\ rosOk' = FALSE
    /\ pre' = Snapshot
    /\ UNCHANGED <<move_specs_, move_status_, circle_hit_mode_, circle_x, circle_y,
                   msg, cmd_vel, picked, calls, params>>

NextShort == Publish \/ PublishShort \/ LaserCallback \/ LaserCallbackCrash \/ SpinOnce

SpecShort == Init /\ [][NextShort]_vars

TypeOK ==
    /\ move_specs_.turn_type_ \in TurnType
    /\ move_status_ \in [can_continue_ : BOOLEAN, is_close_to_wall_ : BOOLEAN,
                         is_following_wall_ : BOOLEAN]
    /\ circle_hit_mode_ \in BOOLEAN
    /\ pc \in {"idle", "queued", "done", "crashed"}
    /\ Len(cmd_vel) <= 1
-----------------------------------------------------------------------------
(* Properties.  They are stated on the state in which a handler has just    *)
(* returned (pc = "done"): msg is the message it handled, pre the fields    *)
(* it started from, cmd_vel what it published.                              *)

CycleDone == pc = "done"

(* The reading at C++ index i of the frame just handled *)
Reading(i) == At(Frame(msg.ranges), i)

(* The sign of a turn direction as the specification gives it *)
Sign(t) == IF t = LEFT THEN 1 ELSE IF t = RIGHT THEN -1 ELSE 0

(* C1: hitMode is monotonic: no step of the controller takes               *)
(* circle_hit_mode_ from true back to false, whatever message arrives.     *)
C1_HitModeMonotonic == [][circle_hit_mode_ => circle_hit_mode_']_vars

(* A later cycle in target-approach mode whose message carries no target    *)
(* and a reference wall too near to switch: the flag is still true.         *)
C1_Witness ==
    /\ CycleDone
    /\ pre.circle_hit_mode_
    /\ circle_hit_mode_
    /\ msg.circle_x = NoCircle
    /\ pre.turn_type_ = RIGHT
    /\ Reading(380) = 5

(* C2: in a cycle that starts with hitMode false, hitMode ends true iff    *)
(* wall^2 > circleX^2 + circleY^2 + 0.5 and -0.5 < circleX < 0.5 and       *)
(* circleY < 1, with wall = ranges[380] for RIGHT, ranges[340] for LEFT    *)
(* and 1 for NONE, the turn direction being the one at the cycle's start.  *)
C2_SwitchIff ==
    (CycleDone /\ ~pre.circle_hit_mode_) =>
        LET wall == IF pre.turn_type_ = RIGHT THEN Reading(380)
                    ELSE IF pre.turn_type_ = LEFT THEN Reading(340)
                    ELSE 100
            x == msg.circle_x
            y == msg.circle_y
        IN  circle_hit_mode_ <=>
                (/\ wall * wall > x * x + y * y + 5000
                 /\ -50 < x /\ x < 50
                 /\ y < 100)

(* Scenario F with the two reference readings different: RIGHT, target     *)
(* (0, 0.5), ranges[380] far and ranges[340] near: the mode switches.      *)
C2_Witness ==
    /\ CycleDone
    /\ ~pre.circle_hit_mode_
    /\ pre.turn_type_ = RIGHT
    /\ msg.circle_x = 0 /\ msg.circle_y = 50
    /\ Reading(380) = 100 /\ Reading(340) = 5
    /\ circle_hit_mode_

(* The command the decision table gives for a following / not-following    *)
(* robot that is not in the random-pick row.                               *)
C3_Table(can, fol, close, t, lin, ang) ==
    IF ~fol THEN <<[linear_x |-> lin, angular_z |-> 0]>>
    ELSE IF can /\ close THEN <<[linear_x |-> lin, angular_z |-> 0]>>
    ELSE IF ~can THEN <<[linear_x |-> 0, angular_z |-> Sign(t) * ang]>>
    ELSE <<[linear_x |-> 0, angular_z |-> -Sign(t) * ang]>>

(* C3: the wall-follow decision table.  For every canContinue,             *)
(* isFollowingWall, isCloseToWall and turnDirection in {LEFT, RIGHT} other *)
(* than the random-pick row, WallFollowMove has exactly one outcome, which *)
(* changes neither turn direction nor isFollowingWall and publishes the    *)
(* table's command; and every wall-follow cycle that starts with a side    *)
(* chosen publishes the table's command for the values it evaluated.       *)
C3_DecisionTable ==
    /\ \A can \in BOOLEAN, fol \in BOOLEAN, close \in BOOLEAN, t \in {LEFT, RIGHT} :
          (can \/ fol) =>
              WallFollowMove([move_specs_ EXCEPT !.turn_type_ = t],
                             [can_continue_ |-> can, is_close_to_wall_ |-> close,
                              is_following_wall_ |-> fol])
              = { [turn_type_ |-> t, is_following_wall_ |-> fol,
                   pub |-> C3_Table(can, fol, close, t, move_specs_.linear_velocity_,
                                    move_specs_.angular_velocity_),
                   picked |-> FALSE] }
    /\ (CycleDone /\ ~pre.circle_hit_mode_ /\ pre.turn_type_ \in {LEFT, RIGHT}) =>
          cmd_vel = C3_Table(move_status_.can_continue_, pre.is_following_wall_,
                             move_status_.is_close_to_wall_, pre.turn_type_,
                             move_specs_.linear_velocity_, move_specs_.angular_velocity_)

(* Scenario D: RIGHT, following, blocked: (0, -angularVelocity) *)
C3_Witness ==
    /\ CycleDone
    /\ ~pre.circle_hit_mode_
    /\ pre.turn_type_ = RIGHT
    /\ pre.is_following_wall_
    /\ ~move_status_.can_continue_
    /\ cmd_vel = <<[linear_x |-> 0, angular_z |-> -move_specs_.angular_velocity_]>>

(* C4: a wall-follow cycle that finds canContinue false while not          *)
(* following a wall ends with isFollowingWall true and turnDirection LEFT  *)
(* or RIGHT, and publishes no command.                                     *)
C4_RandomPick ==
    (CycleDone /\ ~pre.circle_hit_mode_ /\ ~pre.is_following_wall_
        /\ ~move_status_.can_continue_) =>
            /\ move_status_.is_following_wall_
            /\ move_specs_.turn_type_ \in {LEFT, RIGHT}
            /\ cmd_vel = <<>>

(* The first blocked frame: a side was drawn *)
C4_Witness ==
    /\ CycleDone
    /\ ~pre.circle_hit_mode_
    /\ ~pre.is_following_wall_
    /\ pre.turn_type_ = NONE
    /\ ~move_status_.can_continue_
    /\ picked
    /\ move_specs_.turn_type_ = LEFT

(* C5: every scan cycle publishes exactly one velocity command, except a   *)
(* wall-follow cycle that takes the random-pick row (not canContinue and   *)
(* not isFollowingWall), which publishes none; in both modes.              *)
C5_OneCommandPerCycle ==
    CycleDone =>
        IF ~pre.circle_hit_mode_ /\ ~pre.is_following_wall_ /\ ~move_status_.can_continue_
        THEN Len(cmd_vel) = 0
        ELSE Len(cmd_vel) = 1

(* The two values from which HitCircle decides, as the claim names them *)
C6_Front == IF pre.turn_type_ = RIGHT THEN Reading(90) ELSE Reading(630)

C6_Back ==
    IF pre.turn_type_ = RIGHT THEN Reading(move_specs_.right_range_.low_lim_)
    ELSE Reading(move_specs_.left_range_.high_lim_)

(* diff = frontValue - sin(60 degrees) * backValue, times 10^8 (readings   *)
(* are in centimetres, the sine is 0.866025)                               *)
C6_Diff == 1000000 * C6_Front - 866025 * C6_Back

(* C6: the target-approach controller with a side chosen: -0.05 <= diff    *)
(* <= 0.05 publishes (linearVelocity, 0); diff > 0.05 publishes            *)
(* (0, -sign * angularVelocity / 4); diff < -0.05 publishes                *)
(* (0, sign * angularVelocity / 4).  cmd_vel holds angular_z exactly: the  *)
(* quarter is compared multiplied out.                                     *)
C6_ApproachDecision ==
    (CycleDone /\ pre.circle_hit_mode_ /\ pre.turn_type_ \in {LEFT, RIGHT}) =>
        /\ Len(cmd_vel) = 1
        /\ IF -5000000 <= C6_Diff /\ C6_Diff <= 5000000
           THEN cmd_vel[1] = [linear_x |-> move_specs_.linear_velocity_, angular_z |-> 0]
           ELSE IF C6_Diff > 5000000
           THEN /\ cmd_vel[1].linear_x = 0
                /\ 4 * cmd_vel[1].angular_z = -Sign(pre.turn_type_) * move_specs_.angular_velocity_
           ELSE /\ cmd_vel[1].linear_x = 0
                /\ 4 * cmd_vel[1].angular_z = Sign(pre.turn_type_) * move_specs_.angular_velocity_

(* diff exactly 0.05 (front 0.05, back 0) on the left side: aligned *)
C6_Witness ==
    /\ CycleDone
    /\ pre.circle_hit_mode_
    /\ pre.turn_type_ = LEFT
    /\ C6_Diff = 5000000
    /\ cmd_vel = <<[linear_x |-> move_specs_.linear_velocity_, angular_z |-> 0]>>

(* C7: whenever a cycle starts with hitMode true, turnDirection is LEFT or *)
(* RIGHT.                                                                  *)
C7_ApproachHasSide ==
    (pc = "queued" /\ circle_hit_mode_) => move_specs_.turn_type_ \in {LEFT, RIGHT}

(* C8: isFollowingWall implies turnDirection LEFT or RIGHT, and the fatal  *)
(* branch of IsCloseToWall (ros::shutdown) is never taken: a node that     *)
(* started with all its parameters is never shut down.                     *)
C8_FollowingHasSide ==
    /\ move_status_.is_following_wall_ => move_specs_.turn_type_ \in {LEFT, RIGHT}
    /\ (params = ParamNames) => rosOk

(* A cycle in which IsCloseToWall evaluated the followed side *)
C8_Witness ==
    /\ CycleDone
    /\ ~pre.circle_hit_mode_
    /\ pre.is_following_wall_
    /\ move_status_.is_following_wall_
    /\ move_status_.is_close_to_wall_

(* C9: isFollowingWall starts false and no step resets it to false, so it  *)
(* rises at most once; and once it is true no later cycle draws a turn     *)
(* direction again.                                                        *)
C9_FollowOnce ==
    /\ ~move_status_.is_following_wall_
    /\ [][/\ move_status_.is_following_wall_ => move_status_.is_following_wall_'
          /\ move_status_.is_following_wall_ => ~picked']_vars

(* Following, clear ahead and away from the wall (the robot steers back    *)
(* toward it): still following, and no new draw.                           *)
C9_Witness ==
    /\ CycleDone
    /\ ~pre.circle_hit_mode_
    /\ pre.is_following_wall_
    /\ move_status_.can_continue_
    /\ ~move_status_.is_close_to_wall_
    /\ move_status_.is_following_wall_
    /\ ~picked

(* Sector minima tried against the ones of the frame *)
C10_Distances == {0, 1, 5, 6, 100, 200}

C10_RightMin ==
    GetMin(Frame(msg.ranges), move_specs_.right_range_.low_lim_,
           move_specs_.right_range_.high_lim_)

C10_LeftMin ==
    GetMin(Frame(msg.ranges), move_specs_.left_range_.low_lim_,
           move_specs_.left_range_.high_lim_)

C10_CenterMin ==
    GetMin(Frame(msg.ranges), move_specs_.center_range_.low_lim_,
           move_specs_.center_range_.high_lim_)

(* C10: canContinue is monotone in the sector minima: when a wall-follow   *)
(* cycle evaluates canContinue to true, CanContinue is true, for the same  *)
(* turn direction and thresholds, on every triple of minima that is        *)
(* component-wise at least the frame's.                                    *)
C10_CanContinueMonotone ==
    (CycleDone /\ ~pre.circle_hit_mode_ /\ move_status_.can_continue_) =>
        \A r \in C10_Distances, l \in C10_Distances, c \in C10_Distances :
            (r >= C10_RightMin /\ l >= C10_LeftMin /\ c >= C10_CenterMin) =>
                CanContinue([move_specs_ EXCEPT !.turn_type_ = pre.turn_type_], r, l, c)

(* canContinue true on a frame whose secondary (left) minimum is just      *)
(* above its threshold, so that larger triples exist in every component    *)
C10_Witness ==
    /\ CycleDone
    /\ ~pre.circle_hit_mode_
    /\ pre.turn_type_ = RIGHT
    /\ move_status_.can_continue_
    /\ C10_LeftMin = 5
    /\ C10_RightMin = 100
    /\ C10_CenterMin = 100

(* C11: when one of the eleven parameters is missing at start-up, no       *)
(* cycle ever runs: the node is shut down, no message is handled, the      *)
(* controller's fields keep their start-up values and no command is        *)
(* published.                                                              *)
C11_NoCycleWithoutConfig ==
    (params # ParamNames) =>
        /\ ~rosOk
        /\ pc = "idle"
        /\ calls = <<>>
        /\ cmd_vel = <<>>
        /\ move_status_ = [can_continue_ |-> TRUE, is_close_to_wall_ |-> FALSE,
                           is_following_wall_ |-> FALSE]
        /\ move_specs_.turn_type_ = NONE
        /\ circle_x = -1000 /\ circle_y = -1000
        /\ ~circle_hit_mode_

(* The node constructed with the last parameter read missing *)
C11_Witness ==
    /\ params = ParamNames \ {"center_range_high_lim"}
    /\ ~rosOk
    /\ pc = "idle"

(* C13 as stated: once hitMode is true, the very cycle that set it         *)
(* included, the wall-follow controller does not run and draws no turn     *)
(* direction.                                                              *)
C13_NoWallFollowOnceHit ==
    (CycleDone /\ circle_hit_mode_) => (calls = <<"HitCircle">> /\ ~picked)

(* C13, amended: a cycle is routed by hitMode as it is when the cycle      *)
(* starts.  A cycle that starts with hitMode true runs HitCircle only: it  *)
(* re-evaluates neither canContinue nor isCloseToWall and draws no turn    *)
(* direction.  A cycle that starts with hitMode false runs NormalMovement  *)
(* and WallFollowMove, also when the arbiter sets hitMode in it.           *)
C13_RoutedByModeOnEntry ==
    CycleDone =>
        IF pre.circle_hit_mode_
        THEN /\ calls = <<"HitCircle">>
             /\ ~picked
             /\ move_status_.can_continue_ = pre.can_continue_
             /\ move_status_.is_close_to_wall_ = pre.is_close_to_wall_
             /\ move_specs_.turn_type_ = pre.turn_type_
        ELSE calls = <<"NormalMovement", "WallFollowMove">>

(* The cycle in which the arbiter sets hitMode while the robot follows a   *)
(* wall: the wall-follow controller still runs and publishes its turn.     *)
C13_Witness ==
    /\ CycleDone
    /\ ~pre.circle_hit_mode_
    /\ circle_hit_mode_
    /\ pre.is_following_wall_
    /\ calls = <<"NormalMovement", "WallFollowMove">>
    /\ ~move_status_.can_continue_
    /\ Len(cmd_vel) = 1

(* C14: no step that ends with hitMode true changes turnDirection: the     *)
(* direction the arbiter used when it switched is the one every approach   *)
(* cycle uses.                                                             *)
C14_TurnFixedAtSwitch ==
    [][circle_hit_mode_' => move_specs_'.turn_type_ = move_specs_.turn_type_]_vars

(* C17 as stated: no step changes move_specs_. *)
C17_MoveSpecsImmutable == [][move_specs_' = move_specs_]_vars

(* C17, amended: no cycle changes a MoveSpecs field other than             *)
(* turnDirection, and turnDirection is only changed by the random pick,    *)
(* from NONE to LEFT or RIGHT.                                             *)
C17_OnlyTurnDirectionChanges ==
    [][/\ [move_specs_' EXCEPT !.turn_type_ = NONE] = [move_specs_ EXCEPT !.turn_type_ = NONE]
       /\ (move_specs_'.turn_type_ # move_specs_.turn_type_) =>
              /\ picked'
              /\ move_specs_.turn_type_ = NONE
              /\ move_specs_'.turn_type_ \in {LEFT, RIGHT}]_vars

(* A cycle that drew RIGHT *)
C17_Witness ==
    /\ CycleDone
    /\ picked
    /\ pre.turn_type_ = NONE
    /\ move_specs_.turn_type_ = RIGHT

(* The smaller of two sector minima *)
C15_Min2(a, b) == IF a < b THEN a ELSE b

(* canContinue as the claim gives it, from the frame's sector minima and   *)
(* the turn direction in force when the cycle started                      *)
C15_Expected ==
    LET r == C10_RightMin
        l == C10_LeftMin
        c == C10_CenterMin
        priority == IF pre.turn_type_ = RIGHT THEN C15_Min2(c, r)
                    ELSE IF pre.turn_type_ = LEFT THEN C15_Min2(c, l)
                    ELSE C15_Min2(r, C15_Min2(l, c))
        secondary == IF pre.turn_type_ = RIGHT THEN l
                     ELSE IF pre.turn_type_ = LEFT THEN r
                     ELSE C15_Min2(r, C15_Min2(l, c))
    IN  /\ priority > move_specs_.high_security_distance_
        /\ secondary > move_specs_.low_security_distance_

(* C15: the canContinue a wall-follow cycle evaluates is (priority >        *)
(* highSecurityDistance and secondary > lowSecurityDistance), both strict,  *)
(* with priority and secondary chosen by the turn direction at the start    *)
(* of the cycle.                                                            *)
C15_CanContinueValue ==
    (CycleDone /\ ~pre.circle_hit_mode_) => (move_status_.can_continue_ <=> C15_Expected)

(* RIGHT, centre and right clear, the left minimum exactly the low          *)
(* security distance: canContinue is false                                  *)
C15_Witness ==
    /\ CycleDone
    /\ ~pre.circle_hit_mode_
    /\ pre.turn_type_ = RIGHT
    /\ C10_RightMin = 100 /\ C10_CenterMin = 100
    /\ C10_LeftMin = move_specs_.low_security_distance_
    /\ ~move_status_.can_continue_

(* C16 as stated: every cycle that starts with isFollowingWall true sets   *)
(* isCloseToWall to (rightMin < wallFollowDistance) for RIGHT and to        *)
(* (leftMin < wallFollowDistance) for LEFT on its frame.                    *)
C16_CloseToWallEveryFollowingCycle ==
    (CycleDone /\ pre.is_following_wall_) =>
        /\ pre.turn_type_ = RIGHT =>
             (move_status_.is_close_to_wall_
                 <=> C10_RightMin < move_specs_.wall_follow_distance_)
        /\ pre.turn_type_ = LEFT =>
             (move_status_.is_close_to_wall_
                 <=> C10_LeftMin < move_specs_.wall_follow_distance_)

(* C16, amended to the cycles that run NormalMovement:                      *)
(* C16: in a wall-follow cycle isCloseToWall is re-evaluated exactly when   *)
(* the cycle starts with isFollowingWall true, to (rightMin <               *)
(* wallFollowDistance) for RIGHT and (leftMin < wallFollowDistance) for     *)
(* LEFT on this cycle's frame; otherwise it keeps its value.  So the value  *)
(* the following-wall rows read is this cycle's.                            *)
C16_CloseToWallFresh ==
    (CycleDone /\ ~pre.circle_hit_mode_) =>
        IF pre.is_following_wall_
        THEN /\ pre.turn_type_ = RIGHT =>
                  (move_status_.is_close_to_wall_
                      <=> C10_RightMin < move_specs_.wall_follow_distance_)
             /\ pre.turn_type_ = LEFT =>
                  (move_status_.is_close_to_wall_
                      <=> C10_LeftMin < move_specs_.wall_follow_distance_)
        ELSE move_status_.is_close_to_wall_ = pre.is_close_to_wall_

(* Following on the right, close in the previous cycle, the right minimum   *)
(* now exactly the wall-follow distance: not close                          *)
C16_Witness ==
    /\ CycleDone
    /\ ~pre.circle_hit_mode_
    /\ pre.is_following_wall_
    /\ pre.turn_type_ = RIGHT
    /\ pre.is_close_to_wall_
    /\ C10_RightMin = move_specs_.wall_follow_distance_
    /\ ~move_status_.is_close_to_wall_

(* Reference wall readings, up to 300 m *)
C18_Walls == {0, 100, 1416, 1417, 2000, 30000}

(* C18: a message whose target is the sentinel (-10, -10) never takes       *)
(* hitMode from false to true: in every cycle of a run, and for every       *)
(* turn direction and reference wall reading given to the arbiter.          *)
C18_SentinelNeverSwitches ==
    /\ (CycleDone /\ ~pre.circle_hit_mode_ /\ msg.circle_x = -1000 /\ msg.circle_y = -1000)
          => ~circle_hit_mode_
    /\ \A t \in TurnType, w \in C18_Walls :
          ~ModeArbiter(FALSE, [move_specs_ EXCEPT !.turn_type_ = t],
                       [i \in 1..FrameLen |-> w], -1000, -1000)

(* A sentinel message handled while following on the right with the         *)
(* reference wall at 1 m                                                    *)
C18_Witness ==
    /\ CycleDone
    /\ ~pre.circle_hit_mode_
    /\ pre.turn_type_ = RIGHT
    /\ msg.circle_x = -1000 /\ msg.circle_y = -1000
    /\ Reading(380) = 100
    /\ ~circle_hit_mode_

(* C19: a wall-follow cycle publishes a command with non-zero linear        *)
(* velocity only if canContinue, evaluated on its frame, is true; when it   *)
(* is false the cycle publishes nothing or a command with linear            *)
(* velocity 0.                                                              *)
C19_ForwardOnlyWhenClear ==
    (CycleDone /\ ~pre.circle_hit_mode_) =>
        /\ (\E i \in 1..Len(cmd_vel) : cmd_vel[i].linear_x # 0) => C15_Expected
        /\ ~C15_Expected =>
              \/ cmd_vel = <<>>
              \/ Len(cmd_vel) = 1 /\ cmd_vel[1].linear_x = 0

(* Following, close to the wall, blocked: a pure rotation *)
C19_Witness ==
    /\ CycleDone
    /\ ~pre.circle_hit_mode_
    /\ pre.is_following_wall_
    /\ move_status_.is_close_to_wall_
    /\ ~C15_Expected
    /\ Len(cmd_vel) = 1
    /\ cmd_vel[1].linear_x = 0
    /\ cmd_vel[1].angular_z # 0

(* C20: a cycle that starts with hitMode true changes no field of the       *)
(* controller (canContinue, isCloseToWall, isFollowingWall, turnDirection,  *)
(* the recorded target, hitMode) and publishes at most one command.         *)
C20_ApproachChangesNothing ==
    (CycleDone /\ pre.circle_hit_mode_) =>
        /\ move_status_.can_continue_ = pre.can_continue_
        /\ move_status_.is_close_to_wall_ = pre.is_close_to_wall_
        /\ move_status_.is_following_wall_ = pre.is_following_wall_
        /\ move_specs_.turn_type_ = pre.turn_type_
        /\ circle_x = pre.circle_x
        /\ circle_y = pre.circle_y
        /\ circle_hit_mode_ = pre.circle_hit_mode_
        /\ Len(cmd_vel) <= 1

(* An approach cycle whose message carries another target than the          *)
(* recorded one                                                             *)
C20_Witness ==
    /\ CycleDone
    /\ pre.circle_hit_mode_
    /\ msg.circle_x = 10 /\ msg.circle_y = 70
    /\ circle_x = 0 /\ circle_y = 50
    /\ Len(cmd_vel) = 1

(* C12: a cycle whose frame is too short for an index it reads ends         *)
(* without a published command and with the process still running.          *)
C12_ShortFrameSkipped ==
    (/\ pc \in {"done", "crashed"}
     /\ \E i \in IndicesRead(pre.circle_hit_mode_,
                              [move_specs_ EXCEPT !.turn_type_ = pre.turn_type_]) :
            i >= msg.size) =>
        /\ pc = "done"
        /\ rosOk
        /\ cmd_vel = <<>>
====
